---- MODULE Spec2Model ----
(***************************************************************************)
(* Payroll tax computations of server/server.js: the bracket calculator    *)
(* calculatePAYE, its two sibling implementations calculateNigerianPAYE    *)
(* and calculateNigerianTaxes, and the payroll routes that call            *)
(* calculatePAYE (GET /api/payroll/preview, POST /api/payroll/process).    *)
(*                                                                         *)
(* Amounts.  The program computes with JavaScript numbers.  The model      *)
(* keeps every amount as an exact rational n + f/Den (whole naira n and a  *)
(* fraction f in 0..Den-1), so that a product with a rate, the division by *)
(* 12 and Math.round are computed, not assumed.  Den = 30000 is the least  *)
(* denominator that holds every value the modelled code computes from      *)
(* whole-naira inputs: 1/1200 (percent of naira, divided by 12) and        *)
(* 1/10000 (percent of a relief-reduced income).  NaN and Infinity are     *)
(* values of their own and propagate as in JavaScript.  The binary         *)
(* rounding error of IEEE doubles is not modelled.                         *)
(***************************************************************************)
EXTENDS Integers, Sequences, FiniteSets, TLC

VARIABLES
    input,      \* arguments the three calculators are applied to
    calc,       \* the last calculator call: function, arguments, result
    prev,       \* the calculator call before the last one
    employees,  \* rows of table employees (active, of the company)
    payroll,    \* rows of table payroll
    reqs,       \* requests being handled, by request id
    res,        \* responses sent, by request id
    http,       \* the request passing through the route stack
    session,    \* req.session of the employee's browser
    clients,    \* clients handed out by pool.connect(), in order
    portal,     \* the employee handler, or createTables, in progress
    companies,  \* rows of table companies
    admins,     \* rows of table admins
    registration, \* the company registration in progress
    app,        \* the page: loading, or PortfolioApp constructed
    modal,      \* style.display and class 'active' of the modal element
    bodyOverflow, \* document.body.style.overflow
    timers,     \* pending setTimeout callbacks, in the order they were set
    lastCall,   \* the last of the openModal and closeModal calls
    dataTheme,  \* attribute data-theme of the document element
    stored,     \* localStorage item 'theme'
    listeners,  \* click listeners of the theme toggle element
    clicks      \* clicks on the theme toggle so far

calcVars == <<input, calc, prev>>
payVars == <<employees, payroll, reqs, res>>
routeVars == <<http>>
portalVars == <<session, clients, portal>>
companyVars == <<companies, admins, registration>>
pageVars == <<app, modal, bodyOverflow, timers, lastCall, dataTheme, stored,
              listeners, clicks>>
serverVars == <<calcVars, payVars, routeVars, portalVars, companyVars>>
webVars == <<routeVars, portalVars, companyVars, pageVars>>
exceptRoutes == <<calcVars, payVars, portalVars, companyVars, pageVars>>
exceptPortal == <<calcVars, payVars, routeVars, companyVars, pageVars>>
exceptCompany == <<calcVars, payVars, routeVars, portalVars, pageVars>>
exceptPage == serverVars
vars == <<input, calc, prev, employees, payroll, reqs, res, http,
          session, clients, portal, companies, admins, registration,
          app, modal, bodyOverflow, timers, lastCall, dataTheme, stored,
          listeners, clicks>>

\* the row createDefaultAdmin stores in admins
DefaultAdmin ==
    [username |-> "admin", email |-> "admin@hrplatform.com",
     company_id |-> 0, role |-> "super_admin"]

\* the page as the browser has parsed it, before DOMContentLoaded, on a
\* first visit
PageLoading ==
    /\ app = "loading"
    /\ modal = [display |-> "", active |-> FALSE]
    /\ bodyOverflow = ""
    /\ timers = <<>>
    /\ lastCall = "none"
    /\ dataTheme = "(null)"
    /\ listeners = <<>>
    /\ clicks = 0

\* no request is in the route stack, nobody is logged in, no client is
\* checked out, no company is registered, no page is open
WebIdle ==
    /\ http = [pc |-> "idle"]
    /\ session = [employeeId |-> 0]
    /\ clients = <<>>
    /\ portal = [pc |-> "idle"]
    /\ companies = <<>>
    /\ admins = {DefaultAdmin}
    /\ registration = [pc |-> "idle"]
    /\ PageLoading
    /\ stored = "(null)"

----------------------------------------------------------------------------
(* JavaScript numbers *)

\* lcm(1200, 10000)
Den == 3 * 10000

NaN == [n |-> 0, f |-> -1]
Infinity == [n |-> 0, f |-> -2]

Num(k) == [n |-> k, f |-> 0]

IsNaN(a) == a.f = -1
IsInf(a) == a.f = -2
IsFinite(a) == a.f >= 0

\* a + b
Add(a, b) ==
    IF IsNaN(a) \/ IsNaN(b) THEN NaN
    ELSE IF IsInf(a) \/ IsInf(b) THEN Infinity
    ELSE [n |-> a.n + b.n + ((a.f + b.f) \div Den), f |-> (a.f + b.f) % Den]

\* a - b   (Infinity occurs only as the minuend: bracket.max - bracket.min)
Sub(a, b) ==
    IF IsNaN(a) \/ IsNaN(b) THEN NaN
    ELSE IF IsInf(a) THEN Infinity
    ELSE [n |-> a.n - b.n + ((a.f - b.f) \div Den), f |-> (a.f - b.f) % Den]

\* a * (p / q), for a rate p/q with q a divisor of Den
MulRate(a, p, q) ==
    IF IsNaN(a) THEN NaN
    ELSE LET high == (a.n \div q) * p
             low  == (a.n % q) * p
             part == ((low % q) * (Den \div q)) + ((a.f * p) \div q)
         IN [n |-> high + (low \div q) + (part \div Den), f |-> part % Den]

\* a * 12
Mul12(a) ==
    IF IsNaN(a) THEN NaN
    ELSE [n |-> (a.n * 12) + ((a.f * 12) \div Den), f |-> (a.f * 12) % Den]

\* a / 12
Div12(a) ==
    IF IsNaN(a) THEN NaN
    ELSE [n |-> a.n \div 12, f |-> (((a.n % 12) * Den) + a.f) \div 12]

\* a <= b, false when either is NaN
Le(a, b) ==
    IF IsNaN(a) \/ IsNaN(b) THEN FALSE
    ELSE IF IsInf(b) THEN TRUE
    ELSE IF IsInf(a) THEN FALSE
    ELSE a.n < b.n \/ (a.n = b.n /\ a.f <= b.f)

\* a > b, false when either is NaN
Gt(a, b) == IF IsNaN(a) \/ IsNaN(b) THEN FALSE ELSE ~Le(a, b)

\* Math.min(a, b)
MathMin(a, b) ==
    IF IsNaN(a) \/ IsNaN(b) THEN NaN ELSE IF Le(a, b) THEN a ELSE b

\* Math.max(a, b)
MathMax(a, b) ==
    IF IsNaN(a) \/ IsNaN(b) THEN NaN ELSE IF Le(a, b) THEN b ELSE a

\* Math.round(a): the nearest integer, a half rounds towards +Infinity
MathRound(a) ==
    IF ~IsFinite(a) THEN a
    ELSE Num(a.n + (IF 2 * a.f >= Den THEN 1 ELSE 0))

----------------------------------------------------------------------------
(* calculatePAYE *)

taxBrackets ==
    << [min |-> Num(0),       max |-> Num(300000),  rate |-> 7],
       [min |-> Num(300000),  max |-> Num(600000),  rate |-> 11],
       [min |-> Num(600000),  max |-> Num(1100000), rate |-> 15],
       [min |-> Num(1100000), max |-> Num(1600000), rate |-> 19],
       [min |-> Num(1600000), max |-> Num(3200000), rate |-> 21],
       [min |-> Num(3200000), max |-> Infinity,     rate |-> 24] >>

\* the slip of taking the bracket's upper bound for its width
TaxableInThisBracketUpperBound(remainingIncome, bracket) ==
    MathMin(remainingIncome, bracket.max)

TaxableInThisBracket(remainingIncome, bracket) ==
    MathMin(remainingIncome, Sub(bracket.max, bracket.min))

\* the for loop, from bracket i on
RECURSIVE BracketWalk(_, _, _)
BracketWalk(i, tax, remainingIncome) ==
    IF i > Len(taxBrackets) THEN tax
    ELSE IF Le(remainingIncome, Num(0)) THEN tax
    ELSE LET taxableInThisBracket ==
                 TaxableInThisBracket(remainingIncome, taxBrackets[i])
         IN BracketWalk(i + 1,
                        Add(tax, MulRate(taxableInThisBracket, taxBrackets[i].rate, 100)),
                        Sub(remainingIncome, taxableInThisBracket))

\* tax as a module-level accumulator that is not reset: the loop starts from
\* the tax the previous call of calculatePAYE ended with
AnnualTaxCarried(annualIncome) ==
    BracketWalk(1,
                IF calc.fn = "calculatePAYE" THEN calc.tax ELSE Num(0),
                annualIncome)

\* the value of tax when the loop has ended
AnnualTax(annualIncome) == BracketWalk(1, Num(0), annualIncome)

calculatePAYE(annualIncome) == Div12(AnnualTax(annualIncome))

----------------------------------------------------------------------------
(* calculateNigerianPAYE *)

\* the bands the cascade distinguishes and the rate it applies to the part of
\* the income within each: nothing up to 300,000 (tax stays 0), and above it
\* the rate of each branch on the excess over the branch's lower edge
NigerianPAYEBands ==
    << [min |-> Num(0),       max |-> Num(300000),  rate |-> 0],
       [min |-> Num(300000),  max |-> Num(600000),  rate |-> 7],
       [min |-> Num(600000),  max |-> Num(1100000), rate |-> 11],
       [min |-> Num(1100000), max |-> Num(1600000), rate |-> 15],
       [min |-> Num(1600000), max |-> Num(3200000), rate |-> 19],
       [min |-> Num(3200000), max |-> Infinity,     rate |-> 21] >>

\* the cascade replaced by the bracket walk of calculatePAYE
NigerianPAYETaxByBracketWalk(taxableIncome) == AnnualTax(taxableIncome)

\* the if/else cascade over the taxable income
NigerianPAYETax(taxableIncome) ==
    IF Gt(taxableIncome, Num(300000))
    THEN IF Le(taxableIncome, Num(600000))
         THEN MulRate(Sub(taxableIncome, Num(300000)), 7, 100)
         ELSE IF Le(taxableIncome, Num(1100000))
         THEN Add(Num(21000), MulRate(Sub(taxableIncome, Num(600000)), 11, 100))
         ELSE IF Le(taxableIncome, Num(1600000))
         THEN Add(Num(76000), MulRate(Sub(taxableIncome, Num(1100000)), 15, 100))
         ELSE IF Le(taxableIncome, Num(3200000))
         THEN Add(Num(151000), MulRate(Sub(taxableIncome, Num(1600000)), 19, 100))
         ELSE Add(Num(455000), MulRate(Sub(taxableIncome, Num(3200000)), 21, 100))
    ELSE Num(0)

NigerianPAYETaxableIncome(grossSalary, pensionContribution) ==
    LET annualGross == Mul12(grossSalary)
        annualPension == Mul12(pensionContribution)
    IN Sub(annualGross, annualPension)

calculateNigerianPAYE(grossSalary, pensionContribution) ==
    MathRound(Div12(NigerianPAYETax(
        NigerianPAYETaxableIncome(grossSalary, pensionContribution))))

----------------------------------------------------------------------------
(* calculateNigerianTaxes *)

\* the allowance without its ceiling
ConsolidatedAllowanceUncapped(totalIncome) ==
    Add(MulRate(totalIncome, 1, 100), Num(200000))

ConsolidatedAllowance(totalIncome) ==
    MathMin(Add(MulRate(totalIncome, 1, 100), Num(200000)), Num(2400000))

\* the same without the floor at zero
TaxableIncomeUnfloored(totalIncome) ==
    Sub(totalIncome, ConsolidatedAllowance(totalIncome))

TaxableIncome(totalIncome) ==
    MathMax(Num(0), Sub(totalIncome, ConsolidatedAllowance(totalIncome)))

\* the bands the cascade of calculateNigerianTaxes distinguishes and the rate
\* of each branch
ReliefBands ==
    << [min |-> Num(0),       max |-> Num(300000),  rate |-> 7],
       [min |-> Num(300000),  max |-> Num(600000),  rate |-> 11],
       [min |-> Num(600000),  max |-> Num(1100000), rate |-> 15],
       [min |-> Num(1100000), max |-> Num(1600000), rate |-> 19],
       [min |-> Num(1600000), max |-> Num(3200000), rate |-> 21],
       [min |-> Num(3200000), max |-> Infinity,     rate |-> 24] >>

\* the slip of leaving the 21% bracket out of the base of the top branch
ReliefPAYETopBaseShort(taxableIncome) ==
    LET b1 == MulRate(Num(300000), 7, 100)
        b2 == MulRate(Num(300000), 11, 100)
        b3 == MulRate(Num(500000), 15, 100)
        b4 == MulRate(Num(500000), 19, 100)
    IN IF Le(taxableIncome, Num(300000))
       THEN MulRate(taxableIncome, 7, 100)
       ELSE IF Le(taxableIncome, Num(600000))
       THEN Add(b1, MulRate(Sub(taxableIncome, Num(300000)), 11, 100))
       ELSE IF Le(taxableIncome, Num(1100000))
       THEN Add(Add(b1, b2), MulRate(Sub(taxableIncome, Num(600000)), 15, 100))
       ELSE IF Le(taxableIncome, Num(1600000))
       THEN Add(Add(Add(b1, b2), b3),
                MulRate(Sub(taxableIncome, Num(1100000)), 19, 100))
       ELSE IF Le(taxableIncome, Num(3200000))
       THEN Add(Add(Add(Add(b1, b2), b3), b4),
                MulRate(Sub(taxableIncome, Num(1600000)), 21, 100))
       ELSE Add(Add(Add(Add(b1, b2), b3), b4),
                MulRate(Sub(taxableIncome, Num(3200000)), 24, 100))

\* the if/else cascade that sets paye
ReliefPAYE(taxableIncome) ==
    LET b1 == MulRate(Num(300000), 7, 100)
        b2 == MulRate(Num(300000), 11, 100)
        b3 == MulRate(Num(500000), 15, 100)
        b4 == MulRate(Num(500000), 19, 100)
        b5 == MulRate(Num(1600000), 21, 100)
    IN IF Le(taxableIncome, Num(300000))
       THEN MulRate(taxableIncome, 7, 100)
       ELSE IF Le(taxableIncome, Num(600000))
       THEN Add(b1, MulRate(Sub(taxableIncome, Num(300000)), 11, 100))
       ELSE IF Le(taxableIncome, Num(1100000))
       THEN Add(Add(b1, b2), MulRate(Sub(taxableIncome, Num(600000)), 15, 100))
       ELSE IF Le(taxableIncome, Num(1600000))
       THEN Add(Add(Add(b1, b2), b3),
                MulRate(Sub(taxableIncome, Num(1100000)), 19, 100))
       ELSE IF Le(taxableIncome, Num(3200000))
       THEN Add(Add(Add(Add(b1, b2), b3), b4),
                MulRate(Sub(taxableIncome, Num(1600000)), 21, 100))
       ELSE Add(Add(Add(Add(Add(b1, b2), b3), b4), b5),
                MulRate(Sub(taxableIncome, Num(3200000)), 24, 100))

\* the same with the net salary clamped at zero, which the source does not do
calculateNigerianTaxesNetClamped(grossSalary, allowances) ==
    LET totalIncome == Add(grossSalary, allowances)
        paye == ReliefPAYE(TaxableIncome(totalIncome))
        pension == MulRate(totalIncome, 8, 100)
        nhf == MathMin(MulRate(totalIncome, 25, 1000), Num(100000))
        nsitf == MulRate(totalIncome, 1, 100)
        itf == MulRate(totalIncome, 1, 100)
        sum == Add(Add(Add(Add(paye, pension), nhf), nsitf), itf)
    IN [grossSalary |-> totalIncome,
        consolidatedAllowance |-> ConsolidatedAllowance(totalIncome),
        taxableIncome |-> TaxableIncome(totalIncome),
        paye |-> MathRound(paye),
        pension |-> MathRound(pension),
        nhf |-> MathRound(nhf),
        nsitf |-> MathRound(nsitf),
        itf |-> MathRound(itf),
        totalDeductions |-> MathRound(sum),
        netSalary |-> MathMax(Num(0), MathRound(Sub(totalIncome, sum)))]

calculateNigerianTaxes(grossSalary, allowances) ==
    LET totalIncome == Add(grossSalary, allowances)
        consolidatedAllowance == ConsolidatedAllowance(totalIncome)
        taxableIncome == TaxableIncome(totalIncome)
        paye == ReliefPAYE(taxableIncome)
        pension == MulRate(totalIncome, 8, 100)
        nhf == MathMin(MulRate(totalIncome, 25, 1000), Num(100000))
        nsitf == MulRate(totalIncome, 1, 100)
        itf == MulRate(totalIncome, 1, 100)
        sum == Add(Add(Add(Add(paye, pension), nhf), nsitf), itf)
    IN [grossSalary |-> totalIncome,
        consolidatedAllowance |-> consolidatedAllowance,
        taxableIncome |-> taxableIncome,
        paye |-> MathRound(paye),
        pension |-> MathRound(pension),
        nhf |-> MathRound(nhf),
        nsitf |-> MathRound(nsitf),
        itf |-> MathRound(itf),
        totalDeductions |-> MathRound(sum),
        netSalary |-> MathRound(Sub(totalIncome, sum))]

----------------------------------------------------------------------------
(* The calculators applied to inputs *)

\* how far around each bracket edge the inputs are taken
MaxDelta == 1

Edges == {0, 300000, 600000, 1100000, 1600000, 3200000}

\* first argument: the bracket edges and their neighbours, small amounts
\* whose percentages have fractions, the amounts of the worked examples,
\* and monthly amounts whose twelvefold is a bracket edge
FirstArgs ==
    {e + d : e \in Edges, d \in (-MaxDelta)..MaxDelta}
    \cup {4, 100, 350000, 4200000, 5000000}
    \cup {25000, 50000}

\* second argument (allowances, pensionContribution)
SecondArgs == {-1, 0, 50000}

NoCall == [fn |-> "none"]

CalcInit ==
    /\ input \in FirstArgs \X SecondArgs
    /\ calc = NoCall
    /\ prev = NoCall

\* what a call of calculatePAYE(annualIncome) leaves: the arguments, the
\* income the brackets were applied to, the annual tax and the value returned
PAYECall(x) ==
    [fn |-> "calculatePAYE",
     args |-> <<x>>,
     outcome |-> "returned",
     income |-> Num(x),
     tax |-> AnnualTax(Num(x)),
     ret |-> calculatePAYE(Num(x))]

\* the same for calculateNigerianPAYE(grossSalary, pensionContribution)
NigerianPAYECall(x, y) ==
    [fn |-> "calculateNigerianPAYE",
     args |-> <<x, y>>,
     outcome |-> "returned",
     income |-> NigerianPAYETaxableIncome(Num(x), Num(y)),
     tax |-> NigerianPAYETax(NigerianPAYETaxableIncome(Num(x), Num(y))),
     ret |-> calculateNigerianPAYE(Num(x), Num(y))]

\* the same for calculateNigerianTaxes(grossSalary, allowances)
NigerianTaxesCall(x, y) ==
    [fn |-> "calculateNigerianTaxes",
     args |-> <<x, y>>,
     outcome |-> "returned",
     income |-> TaxableIncome(Add(Num(x), Num(y))),
     tax |-> ReliefPAYE(TaxableIncome(Add(Num(x), Num(y)))),
     ret |-> calculateNigerianTaxes(Num(x), Num(y))]

\* calculatePAYE(annualIncome)
CallCalculatePAYE ==
    /\ calc' = PAYECall(input[1])
    /\ UNCHANGED <<input, prev, employees, payroll, reqs, res, webVars>>

\* calculateNigerianPAYE(grossSalary, pensionContribution)
CallCalculateNigerianPAYE ==
    /\ calc' = NigerianPAYECall(input[1], input[2])
    /\ UNCHANGED <<input, prev, employees, payroll, reqs, res, webVars>>

\* calculateNigerianTaxes(grossSalary, allowances)
CallCalculateNigerianTaxes ==
    /\ calc' = NigerianTaxesCall(input[1], input[2])
    /\ UNCHANGED <<input, prev, employees, payroll, reqs, res, webVars>>

CalcNext ==
    \/ CallCalculatePAYE
    \/ CallCalculateNigerianPAYE
    \/ CallCalculateNigerianTaxes

----------------------------------------------------------------------------
(* The payroll routes *)
(*                                                                         *)
(* The database is a collaborator: a pool.query either returns what the    *)
(* handler reads from it (an array of rows, as the handlers index and      *)
(* iterate it) or throws, which the handler's catch block answers with     *)
(* 500.  Each await of a handler is a step of its own, so that requests    *)
(* interleave where the program lets them.  authenticateAdmin has passed.  *)

\* A column value read from the database is NULL (<<>>) or a number (<<k>>).
NULL == <<>>

\* parseFloat(v): NaN for a value that is not a number
ParseFloat(v) == IF v = NULL THEN NaN ELSE Num(v[1])

\* v || 0
OrZero(v) == IF v = NULL \/ v = <<0>> THEN <<0>> ELSE v

\* `${month}-01`, and DATE_FORMAT(period, "%Y-%m") of the stored period
PeriodOf(month) == <<month[1], month[2], 1>>
DateFormatYm(period) == <<period[1], period[2]>>

\* what res.json sends for a number: null for NaN and Infinity
JsonNull == [n |-> 0, f |-> -3]
Json(v) == IF IsFinite(v) THEN v ELSE JsonNull

\* grossPay of one employee row
PayrollGrossPay(employee) ==
    Add(ParseFloat(employee.salary), ParseFloat(OrZero(employee.allowances)))

\* the body of the loop over the employees: the locals of one iteration
EmployeeTaxes(employee) ==
    LET grossPay == PayrollGrossPay(employee)
        paye == calculatePAYE(grossPay)
        nhf == MulRate(grossPay, 25, 1000)
        nsitf == MulRate(grossPay, 1, 100)
        itf == MulRate(grossPay, 1, 100)
        totalDeductions == Add(Add(Add(paye, nhf), nsitf), itf)
    IN [grossPay |-> grossPay, paye |-> paye, nhf |-> nhf, nsitf |-> nsitf,
        itf |-> itf, totalDeductions |-> totalDeductions,
        netPay |-> Sub(grossPay, totalDeductions)]

\* a row whose amounts are those of the year up to the month of the period
PayrollEntryYearToDate(employee, month) ==
    LET t == EmployeeTaxes(employee)
    IN [employee_id |-> employee.id,
        period |-> PeriodOf(month),
        gross_pay |-> MulRate(t.grossPay, month[2], 1),
        total_deductions |-> MulRate(t.totalDeductions, month[2], 1),
        net_pay |-> MulRate(t.netPay, month[2], 1),
        paye_tax |-> MulRate(t.paye, month[2], 1),
        nhf_tax |-> MulRate(t.nhf, month[2], 1),
        nsitf_tax |-> MulRate(t.nsitf, month[2], 1),
        itf_tax |-> MulRate(t.itf, month[2], 1),
        status |-> "processed"]

\* the row POST /api/payroll/process pushes for one employee
PayrollEntry(employee, month) ==
    LET t == EmployeeTaxes(employee)
    IN [employee_id |-> employee.id,
        period |-> PeriodOf(month),
        gross_pay |-> t.grossPay,
        total_deductions |-> t.totalDeductions,
        net_pay |-> t.netPay,
        paye_tax |-> t.paye,
        nhf_tax |-> t.nhf,
        nsitf_tax |-> t.nsitf,
        itf_tax |-> t.itf,
        status |-> "processed"]

\* payrollEntries after the for loop
PayrollEntries(emps, month) ==
    [i \in 1..Len(emps) |-> PayrollEntry(emps[i], month)]

\* the totals of GET /api/payroll/preview after employees.forEach
RECURSIVE PreviewTotals(_, _, _)
PreviewTotals(emps, i, acc) ==
    IF i > Len(emps) THEN acc
    ELSE LET t == EmployeeTaxes(emps[i])
         IN PreviewTotals(emps, i + 1,
              [totalGrossPay |-> Add(acc.totalGrossPay, t.grossPay),
               totalDeductions |->
                   Add(acc.totalDeductions,
                       Add(Add(Add(t.paye, t.nhf), t.nsitf), t.itf)),
               paye |-> Add(acc.paye, t.paye),
               nhf |-> Add(acc.nhf, t.nhf),
               nsitf |-> Add(acc.nsitf, t.nsitf),
               itf |-> Add(acc.itf, t.itf)])

PreviewBody(emps) ==
    LET tot == PreviewTotals(emps, 1,
                   [totalGrossPay |-> Num(0), totalDeductions |-> Num(0),
                    paye |-> Num(0), nhf |-> Num(0), nsitf |-> Num(0),
                    itf |-> Num(0)])
        netPay == Sub(tot.totalGrossPay, tot.totalDeductions)
    IN [employeeCount |-> Len(emps),
        grossPay |-> Json(tot.totalGrossPay),
        totalDeductions |-> Json(tot.totalDeductions),
        netPay |-> Json(netPay),
        taxes |-> [paye |-> Json(tot.paye), nhf |-> Json(tot.nhf),
                   nsitf |-> Json(tot.nsitf), itf |-> Json(tot.itf)]]

\* bounds of the payroll model
MaxEmployees == 2
MaxRequests == 2

Requests == 1..MaxRequests
Months == {<<2024, 1>>, <<2024, 2>>}

\* column values of the employee rows
Salaries == {NULL, <<-1>>, <<0>>, <<300000>>, <<5000000>>}
Allowances == {NULL, <<50000>>}

EmployeeRows(k) ==
    [1..k -> [salary : Salaries, allowances : Allowances]]

Idle == [op |-> "none", pc |-> "idle"]
NoResponse == [status |-> 0]

PayIdle ==
    /\ payroll = <<>>
    /\ reqs = [r \in Requests |-> Idle]
    /\ res = [r \in Requests |-> NoResponse]

PayInit ==
    /\ \E k \in 1..MaxEmployees : \E rows \in EmployeeRows(k) :
          employees = [i \in 1..k |->
                          [id |-> i, salary |-> rows[i].salary,
                           allowances |-> rows[i].allowances]]
    /\ PayIdle
    /\ input = <<0, 0>>
    /\ calc = NoCall
    /\ prev = NoCall
    /\ WebIdle

Respond(r, status, body) ==
    /\ res' = [res EXCEPT ![r] = [status |-> status, body |-> body]]
    /\ reqs' = [reqs EXCEPT ![r] = [@ EXCEPT !.pc = "done"]]

\* GET /api/payroll/preview: the employees query returned
Preview(r) ==
    /\ reqs[r].pc = "idle"
    /\ res' = [res EXCEPT ![r] = [status |-> 200, body |-> PreviewBody(employees)]]
    /\ reqs' = [reqs EXCEPT ![r] = [op |-> "preview", pc |-> "done"]]
    /\ UNCHANGED <<employees, payroll, input, calc, prev, webVars>>

\* GET /api/payroll/preview: the employees query threw
PreviewError(r) ==
    /\ reqs[r].pc = "idle"
    /\ res' = [res EXCEPT ![r] =
                  [status |-> 500, body |-> "Internal server error"]]
    /\ reqs' = [reqs EXCEPT ![r] = [op |-> "preview", pc |-> "done"]]
    /\ UNCHANGED <<employees, payroll, input, calc, prev, webVars>>

\* POST /api/payroll/process: the request arrives, the existing-payroll query
\* is sent
ProcessStart(r, month) ==
    /\ reqs[r].pc = "idle"
    /\ reqs' = [reqs EXCEPT ![r] =
                   [op |-> "process", pc |-> "check", month |-> month,
                    payrollEntries |-> <<>>]]
    /\ UNCHANGED <<employees, payroll, res, input, calc, prev, webVars>>

ExistingPayroll(month) ==
    {i \in 1..Len(payroll) : DateFormatYm(payroll[i].period) = month}

\* the existing-payroll query returned: 400, or the employees query is sent
ProcessCheck(r) ==
    /\ reqs[r].pc = "check"
    /\ IF Cardinality(ExistingPayroll(reqs[r].month)) > 0
       THEN Respond(r, 400, "Payroll already processed for this month")
       ELSE /\ reqs' = [reqs EXCEPT ![r] = [@ EXCEPT !.pc = "read"]]
            /\ UNCHANGED res
    /\ UNCHANGED <<employees, payroll, input, calc, prev, webVars>>

\* the employees query returned: the loop runs, the INSERT is sent
ProcessRead(r) ==
    /\ reqs[r].pc = "read"
    /\ reqs' = [reqs EXCEPT ![r] =
                   [@ EXCEPT !.pc = "insert",
                             !.payrollEntries =
                                 PayrollEntries(employees, reqs[r].month)]]
    /\ UNCHANGED <<employees, payroll, res, input, calc, prev, webVars>>

\* one INSERT per row: each step stores the next row, the count is reported
\* with the last
ProcessInsertRowByRow(r) ==
    /\ reqs[r].pc = "insert"
    /\ payroll' = Append(payroll, Head(reqs[r].payrollEntries))
    /\ IF Len(reqs[r].payrollEntries) = 1
       THEN Respond(r, 200, [message |-> "Payroll processed successfully",
                             processedCount |-> Len(employees)])
       ELSE /\ reqs' = [reqs EXCEPT ![r] =
                           [@ EXCEPT !.payrollEntries = Tail(@)]]
            /\ UNCHANGED res
    /\ UNCHANGED <<employees, input, calc, prev, webVars>>

\* the INSERT returned: the rows are stored, the count is reported
ProcessInsert(r) ==
    /\ reqs[r].pc = "insert"
    /\ payroll' = payroll \o reqs[r].payrollEntries
    /\ Respond(r, 200, [message |-> "Payroll processed successfully",
                        processedCount |-> Len(reqs[r].payrollEntries)])
    /\ UNCHANGED <<employees, input, calc, prev, webVars>>

\* one of the three queries threw: the catch block answers 500
ProcessError(r) ==
    /\ reqs[r].pc \in {"check", "read", "insert"}
    /\ Respond(r, 500, "Internal server error")
    /\ UNCHANGED <<employees, payroll, input, calc, prev, webVars>>

\* POST /api/banking/tax-report: the handler reads year and month from the
\* body and then evaluates db.promise(); server.js declares no db (it imports
\* pool only), so the evaluation throws a ReferenceError before any query is
\* sent, and the catch block answers 500. The totals are never computed and
\* tax_filings is never written.
TaxReport(r) ==
    /\ reqs[r].pc = "idle"
    /\ res' = [res EXCEPT ![r] =
                  [status |-> 500, body |-> "Error generating tax report"]]
    /\ reqs' = [reqs EXCEPT ![r] = [op |-> "taxReport", pc |-> "done"]]
    /\ UNCHANGED <<employees, payroll, input, calc, prev, webVars>>

PayNext ==
    \E r \in Requests :
        \/ Preview(r)
        \/ PreviewError(r)
        \/ \E month \in Months : ProcessStart(r, month)
        \/ ProcessCheck(r)
        \/ ProcessRead(r)
        \/ ProcessInsert(r)
        \/ ProcessError(r)
        \/ TaxReport(r)

----------------------------------------------------------------------------
(* The body of the payroll loop as a computation of its own, and runs of   *)
(* two computations one after the other                                    *)

\* what one iteration of the payroll loop computes for an employee row with
\* salary x and allowances y
PayrollLoopCall(x, y) ==
    LET t == EmployeeTaxes([id |-> 1, salary |-> <<x>>, allowances |-> <<y>>])
    IN [fn |-> "payrollLoop",
        args |-> <<x, y>>,
        outcome |-> "returned",
        income |-> t.grossPay,
        tax |-> AnnualTax(t.grossPay),
        ret |-> t]

\* the brackets each computation takes its PAYE from; the payroll loop calls
\* calculatePAYE
BandsOf(fn) ==
    CASE fn = "calculatePAYE" -> taxBrackets
      [] fn = "payrollLoop" -> taxBrackets
      [] fn = "calculateNigerianPAYE" -> NigerianPAYEBands
      [] fn = "calculateNigerianTaxes" -> ReliefBands

\* one iteration of the loop of the payroll routes
CallPayrollLoop ==
    /\ calc' = PayrollLoopCall(input[1], input[2])
    /\ UNCHANGED <<input, prev, employees, payroll, reqs, res, webVars>>

\* the arguments of the runs: amounts in each bracket and at its ends, a
\* small amount whose percentages have fractions, amounts above the cap of
\* the housing fund contribution; allowances none or 50000
RunFirstArgs ==
    {0, 4, 299999, 300000, 300001, 1600000, 3200001, 4200000, 5000000}

RunSecondArgs == {0, 50000}

\* a computation with fresh arguments, after whatever was computed before
RunCalculatePAYE ==
    \E x \in RunFirstArgs :
        /\ input' = <<x, 0>>
        /\ prev' = calc
        /\ calc' = PAYECall(x)
        /\ UNCHANGED <<employees, payroll, reqs, res, webVars>>

RunCalculateNigerianPAYE ==
    \E x \in RunFirstArgs, y \in RunSecondArgs :
        /\ input' = <<x, y>>
        /\ prev' = calc
        /\ calc' = NigerianPAYECall(x, y)
        /\ UNCHANGED <<employees, payroll, reqs, res, webVars>>

\* incomes at and above 220,000,000, where 1% + 200,000 meets the ceiling of
\* the consolidated allowance
ReliefCapArgs == {220000000, 250000000}

RunCalculateNigerianTaxes ==
    \E x \in RunFirstArgs \cup ReliefCapArgs, y \in RunSecondArgs :
        /\ input' = <<x, y>>
        /\ prev' = calc
        /\ calc' = NigerianTaxesCall(x, y)
        /\ UNCHANGED <<employees, payroll, reqs, res, webVars>>

RunPayrollLoop ==
    \E x \in RunFirstArgs, y \in RunSecondArgs :
        /\ input' = <<x, y>>
        /\ prev' = calc
        /\ calc' = PayrollLoopCall(x, y)
        /\ UNCHANGED <<employees, payroll, reqs, res, webVars>>

----------------------------------------------------------------------------
(* The validators of server/validation.js *)

\* request bodies are records of these fields, their values texts; the
\* value of a field the body does not have is undefined
Undefined == "(undefined)"

BodyFields ==
    {"title", "department", "location", "employment_type", "salary",
     "name", "email", "phone"}

Body(given) ==
    [f \in BodyFields |-> IF f \in DOMAIN given THEN given[f] ELSE Undefined]

\* the body a multipart request has when the JSON and urlencoded parsers
\* have passed it by
EmptyBody == Body(<<>>)

\* String.prototype.trim on the texts of the model
Trim(text) == IF text \in {"", " ", "  "} THEN "" ELSE text

\* !value of a field: undefined and the empty string are falsy
Falsy(value) == value = Undefined \/ value = ""

\* parseFloat on the salary texts of the model
ParseFloatText(text) ==
    CASE text = "250000" -> Num(250000)
      [] text = "0" -> Num(0)
      [] text = "-5" -> Num(-5)
      [] OTHER -> NaN

isValidSalary(salary) ==
    LET num == ParseFloatText(salary)
    IN ~IsNaN(num) /\ Gt(num, Num(0))

\* emailRegex.test on the texts of the model: something@something.something
\* without blanks
isValidEmail(email) == email \in {"ada@resconate.ng"}

\* phoneRegex.test on the texts of the model: ten or more digits, blanks,
\* dashes or brackets after an optional +
isValidPhone(phone) == phone \in {"+234 801 234 5678"}

RECURSIVE validateRequired(_, _)
validateRequired(fields, data) ==
    IF fields = <<>> THEN <<>>
    ELSE LET field == Head(fields)
             missing == Falsy(data[field]) \/ Trim(data[field]) = ""
         IN (IF missing THEN <<field \o " is required">> ELSE <<>>)
                \o validateRequired(Tail(fields), data)

validateJob(jobData) ==
    validateRequired(<<"title", "department", "location", "employment_type">>,
                     jobData)
        \o (IF ~Falsy(jobData.salary) /\ ~isValidSalary(jobData.salary)
            THEN <<"Salary must be a positive number">> ELSE <<>>)

validateCandidate(candidateData) ==
    validateRequired(<<"name", "email", "phone">>, candidateData)
        \o (IF ~Falsy(candidateData.email) /\ ~isValidEmail(candidateData.email)
            THEN <<"Invalid email format">> ELSE <<>>)
        \o (IF ~Falsy(candidateData.phone) /\ ~isValidPhone(candidateData.phone)
            THEN <<"Invalid phone number format">> ELSE <<>>)

\* what a middleware or handler did with the request: the status it
\* responded with (0: it sent no response) and its body, whether it called
\* next(), and whether it passed an error on
NoBody == <<>>
Responds(status, body) ==
    [status |-> status, body |-> body, next |-> FALSE, err |-> FALSE]
CallsNext == [status |-> 0, body |-> NoBody, next |-> TRUE, err |-> FALSE]
PassesError == [status |-> 0, body |-> NoBody, next |-> FALSE, err |-> TRUE]

\* the middleware without the return in front of res.status(400): it
\* responds and goes on to next()
createValidationMiddlewareNoReturn(errors) ==
    IF Len(errors) > 0
    THEN [status |-> 400,
          body |-> [success |-> FALSE, error |-> "Validation failed",
                    details |-> errors],
          next |-> TRUE, err |-> FALSE]
    ELSE CallsNext

\* the middleware createValidationMiddleware(validator) returns, given the
\* errors validator(req.body) has returned
createValidationMiddleware(errors) ==
    IF Len(errors) > 0
    THEN Responds(400, [success |-> FALSE, error |-> "Validation failed",
                        details |-> errors])
    ELSE CallsNext

----------------------------------------------------------------------------
(* The route stack of server/server.js                                     *)
(*                                                                         *)
(* Express tries the registered layers in the order of registration; a     *)
(* layer whose method and path match runs its chain of handlers, each of   *)
(* which responds, calls next() or passes an error on.  After an error     *)
(* only error-handling layers further down the stack are tried.  The       *)
(* model has a request as it reaches the first route: the middleware of    *)
(* lines 39-59 has parsed its body and found no static file for its path.  *)
(* A handler that awaits the database responds from its try block or from  *)
(* its catch block.                                                        *)

\* authenticateAdmin, given the token of the request and what the lookup of
\* the admin returned
authenticateAdmin(token, lookup) ==
    IF token = "none"
    THEN Responds(401, [error |-> "Access denied. No token provided."])
    ELSE IF token = "invalid" \/ lookup = "throws"
    THEN Responds(401, [error |-> "Invalid token."])
    ELSE IF lookup = "notfound"
    THEN Responds(401, [error |-> "Invalid token. Admin not found."])
    ELSE CallsNext

\* the routes in the order of their registration: the line of the
\* registration, its method and path and the handlers of its chain
Route(line, method, path, chain) ==
    [line |-> line, method |-> method, path |-> path, chain |-> chain]

FirstRoutes ==
    << Route(62, "GET", "/health", <<"handler">>),
       Route(158, "GET", "/api/hr/jobs", <<"authenticateAdmin", "handler">>),
       Route(168, "POST", "/api/hr/jobs",
             <<"authenticateAdmin", "validateJob", "handler">>),
       Route(185, "GET", "/api/hr/candidates",
             <<"authenticateAdmin", "handler">>),
       Route(195, "POST", "/api/hr/candidates",
             <<"authenticateAdmin", "validateCandidate", "upload", "handler">>),
       Route(213, "GET", "/api/hr/interviews",
             <<"authenticateAdmin", "handler">>),
       Route(229, "POST", "/api/hr/interviews",
             <<"authenticateAdmin", "handler">>) >>

\* the fallback for client-side routing and the generic error handler
FallbackRoutes ==
    << Route(620, "GET", "*", <<"fallback">>),
       Route(629, "ERROR", "*", <<"errorHandler">>) >>

\* routes of the employee portal and of payroll, registered below the
\* fallback
PortalRoutes ==
    << Route(635, "POST", "/api/employee/login", <<"handler">>),
       Route(698, "GET", "/api/employee/me", <<"handler">>),
       Route(825, "GET", "/api/payroll/stats",
             <<"authenticateAdmin", "handler">>),
       Route(890, "GET", "/api/payroll/preview",
             <<"authenticateAdmin", "handler">>),
       Route(943, "POST", "/api/payroll/process",
             <<"authenticateAdmin", "handler">>),
       Route(1034, "GET", "/payroll", <<"authenticateAdmin", "handler">>) >>

\* the recruitment block, which registers the jobs, candidates and
\* interviews routes a second time
RecruitmentRoutes ==
    << Route(1684, "GET", "/api/hr/jobs", <<"handler">>),
       Route(1703, "POST", "/api/hr/jobs", <<"handler">>),
       Route(1755, "GET", "/api/hr/candidates", <<"handler">>),
       Route(1772, "POST", "/api/hr/candidates", <<"handler">>),
       Route(1831, "GET", "/api/hr/interviews", <<"handler">>),
       Route(1849, "POST", "/api/hr/interviews", <<"handler">>) >>

\* the recruitment block moved to the top of the file
RoutesRecruitmentFirst ==
    RecruitmentRoutes \o FirstRoutes \o FallbackRoutes \o PortalRoutes

Routes == FirstRoutes \o FallbackRoutes \o PortalRoutes \o RecruitmentRoutes

Methods == {"GET", "POST"}

Paths ==
    ({Routes[i].path : i \in 1..Len(Routes)} \ {"*"}) \cup {"/about"}

Tokens == {"none", "invalid", "valid"}

\* the bodies requests carry
Bodies ==
    { EmptyBody,
      Body([title |-> "Engineer", department |-> "IT", location |-> "Lagos",
            employment_type |-> "full-time"]),
      Body([title |-> "Engineer", department |-> "IT", location |-> "Lagos",
            employment_type |-> "full-time", salary |-> "250000"]),
      Body([title |-> "Engineer", department |-> "IT", location |-> "Lagos",
            employment_type |-> "full-time", salary |-> "-5"]),
      Body([title |-> "Engineer", department |-> "IT", location |-> "Lagos",
            employment_type |-> "full-time", salary |-> "soon"]),
      Body([title |-> "  ", department |-> "IT", location |-> "",
            employment_type |-> "full-time"]),
      Body([name |-> "Ada", email |-> "ada@resconate.ng",
            phone |-> "+234 801 234 5678"]),
      Body([name |-> "Ada", email |-> "ada", phone |-> "0801"]),
      Body([name |-> "Ada", email |-> "ada@resconate.ng"]) }

\* the layer the request is at
Layer == Routes[http.layer]

\* the same with a wildcard that leaves the paths under /api to the routes
MatchesOutsideApi(layer) ==
    IF http.err THEN layer.method = "ERROR"
    ELSE /\ layer.method = http.method
         /\ \/ layer.path = http.path
            \/ layer.path = "*" /\ http.path \in {"/health", "/payroll", "/about"}

\* a layer is tried for a request of its method and path, or, after an
\* error, if it is an error handler
Matches(layer) ==
    IF http.err THEN layer.method = "ERROR"
    ELSE /\ layer.method = http.method
         /\ layer.path \in {http.path, "*"}

\* the request is at a handler of the given kind
At(kind) ==
    /\ http.pc = "routing"
    /\ http.layer <= Len(Routes)
    /\ Matches(Layer)
    /\ Layer.chain[http.pos] = kind

\* the handler at hand has done what outcome says: the first response
\* stands; next() goes on with the chain, or with the next layer at its end;
\* an error goes on with the next layer; a handler that does neither ends
\* the routing of the request
Apply(outcome) ==
    LET entry == [line |-> Layer.line, pos |-> http.pos,
                  kind |-> Layer.chain[http.pos],
                  status |-> outcome.status, body |-> outcome.body,
                  next |-> outcome.next, err |-> outcome.err]
        sent == http.status = 0 /\ outcome.status # 0
        chainGoesOn == outcome.next /\ http.pos < Len(Layer.chain)
        stackGoesOn == outcome.err \/ (outcome.next /\ ~chainGoesOn)
    IN http' = [http EXCEPT
                   !.log = Append(@, entry),
                   !.status = IF sent THEN outcome.status ELSE @,
                   !.by = IF sent THEN Layer.line ELSE @,
                   !.err = @ \/ outcome.err,
                   !.pos = IF chainGoesOn THEN @ + 1 ELSE 1,
                   !.layer = IF stackGoesOn THEN @ + 1 ELSE @,
                   !.pc = IF chainGoesOn \/ stackGoesOn
                          THEN "routing" ELSE "done"]

\* a request reaches the first route
Arrive ==
    /\ http.pc \in {"idle", "done"}
    /\ \E method \in Methods, path \in Paths, token \in Tokens,
          multipart \in BOOLEAN, body \in Bodies :
          /\ method = "GET" => (~multipart /\ body = EmptyBody)
          /\ multipart => body = EmptyBody
          /\ http' = [pc |-> "routing", method |-> method, path |-> path,
                      token |-> token, multipart |-> multipart,
                      body |-> body, layer |-> 1, pos |-> 1, err |-> FALSE,
                      status |-> 0, by |-> 0, log |-> <<>>]
    /\ UNCHANGED exceptRoutes

\* the layer does not match: the next one is tried
SkipLayer ==
    /\ http.pc = "routing"
    /\ http.layer <= Len(Routes)
    /\ ~Matches(Layer)
    /\ http' = [http EXCEPT !.layer = @ + 1]
    /\ UNCHANGED exceptRoutes

RunAuthenticateAdmin ==
    /\ At("authenticateAdmin")
    /\ \E lookup \in {"found", "notfound", "throws"} :
          Apply(authenticateAdmin(http.token, lookup))
    /\ UNCHANGED exceptRoutes

RunValidateJob ==
    /\ At("validateJob")
    /\ Apply(createValidationMiddleware(validateJob(http.body)))
    /\ UNCHANGED exceptRoutes

RunValidateCandidate ==
    /\ At("validateCandidate")
    /\ Apply(createValidationMiddleware(validateCandidate(http.body)))
    /\ UNCHANGED exceptRoutes

\* upload.single(...): a request that is not multipart is passed on; the
\* parsing of a multipart one ends well or with an error
RunUpload ==
    /\ At("upload")
    /\ \/ Apply(CallsNext)
       \/ http.multipart /\ Apply(PassesError)
    /\ UNCHANGED exceptRoutes

\* the last handler of a chain: it responds from its try block or from its
\* catch block
RunHandler ==
    /\ At("handler")
    /\ \E status \in {200, 500} : Apply(Responds(status, NoBody))
    /\ UNCHANGED exceptRoutes

\* app.get('*'): res.sendFile sends index.html, or fails and passes the
\* error on
RunFallback ==
    /\ At("fallback")
    /\ \/ Apply(Responds(200, "index.html"))
       \/ Apply(PassesError)
    /\ UNCHANGED exceptRoutes

\* the generic error handler
RunErrorHandler ==
    /\ At("errorHandler")
    /\ Apply(Responds(500, [error |-> "Internal Server Error"]))
    /\ UNCHANGED exceptRoutes

\* no layer is left: Express answers 404, or 500 after an error
EndOfStack ==
    /\ http.pc = "routing"
    /\ http.layer > Len(Routes)
    /\ http' = [http EXCEPT !.pc = "done",
                            !.status = IF http.err THEN 500 ELSE 404]
    /\ UNCHANGED exceptRoutes

RouteNext ==
    \/ Arrive
    \/ SkipLayer
    \/ RunAuthenticateAdmin
    \/ RunValidateJob
    \/ RunValidateCandidate
    \/ RunUpload
    \/ RunHandler
    \/ RunFallback
    \/ RunErrorHandler
    \/ EndOfStack

----------------------------------------------------------------------------
(* Employee portal and pool clients                                        *)
(*                                                                         *)
(* The handlers of server.js 635-823 and createTables of database.js, one  *)
(* step per awaited call.  One handler runs at a time, for one browser     *)
(* session.  A client is a record of who obtained it and how many times    *)
(* release() was called on it.  The handlers are taken as they are         *)
(* invoked; which requests reach them is the route stack's matter.         *)
(* server.js never declares bcrypt at module level, so the evaluation of   *)
(* bcrypt.compare at line 653 throws a ReferenceError into the catch block *)
(* of the login handler.                                                   *)

\* pool.connect() calls in one behaviour
MaxClients == 3

Usernames == {"known", "unknown"}
EmployeeOps == {"me", "profile", "leave-request", "leave-history"}

\* the awaited steps of a handler after pool.connect(), in program order;
\* empty is the status answered, after a release, when a SELECT finds no
\* row, and 0 where the handler does not look at the rows
HandlerSteps(op) ==
    CASE op = "login" ->
           << [kind |-> "query", empty |-> 401],
              [kind |-> "compare", empty |-> 0],
              [kind |-> "query", empty |-> 0] >>
      [] op = "me" -> << [kind |-> "query", empty |-> 404] >>
      [] op = "profile" -> << [kind |-> "query", empty |-> 0] >>
      [] op \in {"leave-request", "leave-history"} ->
           << [kind |-> "query", empty |-> 404],
              [kind |-> "query", empty |-> 0] >>

NotAuthenticatedNever(sess) == FALSE

\* !req.session.employeeId
NotAuthenticated(sess) == sess.employeeId = 0

\* client.release()
Release(cs, i) == [cs EXCEPT ![i].released = @ + 1]

PortalFree == portal.pc \in {"idle", "done", "thrown"}

Handling(op, username, databaseUrl) ==
    [pc |-> "connect", op |-> op, username |-> username,
     databaseUrl |-> databaseUrl, step |-> 0, client |-> 0, db |-> 0,
     status |-> 0]

\* the handler answers with a status and returns
Answer(status) == [portal EXCEPT !.pc = "done", !.status = status]

\* POST /api/employee/login is invoked
Login(username) ==
    /\ PortalFree
    /\ Len(clients) < MaxClients
    /\ portal' = Handling("login", username, FALSE)
    /\ UNCHANGED <<session, clients, exceptPortal>>

\* one of the session-guarded handlers is invoked
Employee(op) ==
    /\ PortalFree
    /\ Len(clients) < MaxClients
    /\ portal' = IF NotAuthenticated(session)
                 THEN [Handling(op, "", FALSE) EXCEPT
                           !.pc = "done", !.status = 401]
                 ELSE Handling(op, "", FALSE)
    /\ UNCHANGED <<session, clients, exceptPortal>>

\* pool.connect() of a handler resolves
PoolConnect ==
    /\ portal.pc = "connect"
    /\ portal.op # "createTables"
    /\ clients' = Append(clients, [by |-> portal.op, released |-> 0])
    /\ portal' = [portal EXCEPT !.client = Len(clients) + 1,
                                !.db = @ + 1,
                                !.step = 1,
                                !.pc = HandlerSteps(portal.op)[1].kind]
    /\ UNCHANGED <<session, exceptPortal>>

\* pool.connect() of a handler rejects: the catch block answers 500
PoolConnectRejects ==
    /\ portal.pc = "connect"
    /\ portal.op # "createTables"
    /\ portal' = [Answer(500) EXCEPT !.db = @ + 1]
    /\ UNCHANGED <<session, clients, exceptPortal>>

\* client.query() of a handler resolves
QueryReturns(found) ==
    /\ portal.pc = "query"
    /\ portal.op = "login" => found = (portal.username = "known")
    /\ LET steps == HandlerSteps(portal.op)
           step == steps[portal.step]
           ran == [portal EXCEPT !.db = @ + 1]
       IN  IF step.empty # 0 /\ ~found
           THEN /\ clients' = Release(clients, portal.client)
                /\ portal' = [ran EXCEPT !.pc = "done",
                                         !.status = step.empty]
                /\ UNCHANGED session
           ELSE IF portal.step < Len(steps)
           THEN /\ portal' = [ran EXCEPT !.step = @ + 1,
                                         !.pc = steps[portal.step + 1].kind]
                /\ UNCHANGED <<session, clients>>
           ELSE /\ clients' = Release(clients, portal.client)
                /\ session' = IF portal.op = "login"
                              THEN [employeeId |-> 1]
                              ELSE session
                /\ portal' = [ran EXCEPT !.pc = "done", !.status = 200]
    /\ UNCHANGED exceptPortal

\* client.query() of a handler rejects: the catch block answers 500
QueryRejects ==
    /\ portal.pc = "query"
    /\ portal' = [Answer(500) EXCEPT !.db = @ + 1]
    /\ UNCHANGED <<session, clients, exceptPortal>>

\* bcrypt.compare of the login handler: bcrypt is not defined
Compare ==
    /\ portal.pc = "compare"
    /\ portal' = Answer(500)
    /\ UNCHANGED <<session, clients, exceptPortal>>

\* POST /api/employee/logout: req.session.destroy and its callback
Logout ==
    /\ PortalFree
    /\ \E err \in BOOLEAN :
          /\ portal' = [Handling("logout", "", FALSE) EXCEPT
                            !.pc = "done",
                            !.status = IF err THEN 500 ELSE 200]
          /\ session' = IF err THEN session ELSE [employeeId |-> 0]
    /\ UNCHANGED <<clients, exceptPortal>>

\* createTables is called
CreateTables(databaseUrl) ==
    /\ PortalFree
    /\ Len(clients) + 2 <= MaxClients
    /\ portal' = Handling("createTables", "", databaseUrl)
    /\ UNCHANGED <<session, clients, exceptPortal>>

\* let client = await pool.connect(), before the try block
CreateTablesConnect ==
    /\ portal.pc = "connect"
    /\ portal.op = "createTables"
    /\ \/ /\ clients' = Append(clients,
                               [by |-> portal.op, released |-> 0])
          /\ portal' = [portal EXCEPT
                            !.client = Len(clients) + 1,
                            !.db = @ + 1,
                            !.pc = IF portal.databaseUrl
                                   THEN "tables" ELSE "database"]
       \/ /\ portal' = [portal EXCEPT !.pc = "thrown", !.db = @ + 1]
          /\ UNCHANGED clients
    /\ UNCHANGED <<session, exceptPortal>>

\* without DATABASE_URL: the hr_platform database is looked up and created,
\* the client is released and the pool replaced; a throw runs the finally
\* block
CreateTablesDatabase ==
    /\ portal.pc = "database"
    /\ \/ /\ clients' = Release(clients, portal.client)
          /\ portal' = [portal EXCEPT !.pc = "reconnect", !.db = @ + 1]
       \/ /\ clients' = Release(clients, portal.client)
          /\ portal' = [portal EXCEPT !.pc = "thrown", !.db = @ + 1]
    /\ UNCHANGED <<session, exceptPortal>>

\* client = await pool.connect() on the replaced pool; when it rejects the
\* finally block releases the client the variable still holds
CreateTablesReconnect ==
    /\ portal.pc = "reconnect"
    /\ \/ /\ clients' = Append(clients,
                               [by |-> portal.op, released |-> 0])
          /\ portal' = [portal EXCEPT !.client = Len(clients) + 1,
                                      !.db = @ + 1,
                                      !.pc = "tables"]
       \/ /\ clients' = Release(clients, portal.client)
          /\ portal' = [portal EXCEPT !.pc = "thrown", !.db = @ + 1]
    /\ UNCHANGED <<session, exceptPortal>>

\* the CREATE TABLE and ALTER TABLE queries, then the finally block
CreateTablesQueries ==
    /\ portal.pc = "tables"
    /\ clients' = Release(clients, portal.client)
    /\ \E threw \in BOOLEAN :
          portal' = [portal EXCEPT
                         !.pc = IF threw THEN "thrown" ELSE "done",
                         !.db = @ + 1]
    /\ UNCHANGED <<session, exceptPortal>>

PortalNext ==
    \/ \E username \in Usernames : Login(username)
    \/ \E op \in EmployeeOps : Employee(op)
    \/ PoolConnect
    \/ PoolConnectRejects
    \/ \E found \in BOOLEAN : QueryReturns(found)
    \/ QueryRejects
    \/ Compare
    \/ Logout
    \/ \E databaseUrl \in BOOLEAN : CreateTables(databaseUrl)
    \/ CreateTablesConnect
    \/ CreateTablesDatabase
    \/ CreateTablesReconnect
    \/ CreateTablesQueries

----------------------------------------------------------------------------
(* Company registration: POST /api/company/register (server.js 2232-2291)  *)
(*                                                                         *)
(* One step per awaited call.  The statements go to the pool one by one,   *)
(* outside any transaction.  The tables hold the columns the handler reads *)
(* and the UNIQUE constraints of database.js; createDefaultAdmin has       *)
(* stored the default admin.                                               *)

RegisterEmails ==
    {"admin@hrplatform.com", "hr@acme.example", "hr@globex.example"}
RegisterUsernames == {"admin", "acme", "globex"}

RegistrationFree == registration.pc \in {"idle", "done"}

\* INSERT INTO companies
InsertIntoCompanies(rows, email) ==
    Append(rows, [id |-> Len(rows) + 1, email |-> email])

RegistrationAnswer(status) ==
    [registration EXCEPT !.pc = "done", !.status = status]

\* the request arrives; the required fields are validated
Register(complete, email, username) ==
    /\ RegistrationFree
    /\ LET arrived == [pc |-> "checkEmail", email |-> email,
                       username |-> username, companyId |-> 0,
                       status |-> 0]
       IN  registration' = IF complete
                           THEN arrived
                           ELSE [arrived EXCEPT !.pc = "done",
                                                !.status = 400]
    /\ UNCHANGED <<companies, admins, exceptCompany>>

\* SELECT id FROM companies WHERE email = ? resolved
RegisterCheckEmail ==
    /\ registration.pc = "checkEmail"
    /\ registration' =
          IF \E i \in 1..Len(companies) :
                 companies[i].email = registration.email
          THEN RegistrationAnswer(400)
          ELSE [registration EXCEPT !.pc = "checkUsername"]
    /\ UNCHANGED <<companies, admins, exceptCompany>>

\* SELECT id FROM admins WHERE username = ? resolved
RegisterCheckUsername ==
    /\ registration.pc = "checkUsername"
    /\ registration' =
          IF \E a \in admins : a.username = registration.username
          THEN RegistrationAnswer(400)
          ELSE [registration EXCEPT !.pc = "insertCompany"]
    /\ UNCHANGED <<companies, admins, exceptCompany>>

\* INSERT INTO companies resolved; companyId = companyResult.insertId
RegisterInsertCompany ==
    /\ registration.pc = "insertCompany"
    /\ companies' = InsertIntoCompanies(companies, registration.email)
    /\ registration' = [registration EXCEPT
                            !.pc = "hash",
                            !.companyId = Len(companies) + 1]
    /\ UNCHANGED <<admins, exceptCompany>>

\* bcrypt.hash(password, 10) resolved
RegisterHash ==
    /\ registration.pc = "hash"
    /\ registration' = [registration EXCEPT !.pc = "insertAdmin"]
    /\ UNCHANGED <<companies, admins, exceptCompany>>

\* INSERT INTO admins: resolves and 201 is answered, or is rejected by
\* UNIQUE (username) or UNIQUE (email) and the catch block answers 500
RegisterInsertAdmin ==
    /\ registration.pc = "insertAdmin"
    /\ IF \E a \in admins : \/ a.username = registration.username
                            \/ a.email = registration.email
       THEN /\ registration' = RegistrationAnswer(500)
            /\ UNCHANGED <<companies, admins>>
       ELSE /\ admins' = admins \cup
                   {[username |-> registration.username,
                     email |-> registration.email,
                     company_id |-> registration.companyId,
                     role |-> "company_admin"]}
            /\ registration' = RegistrationAnswer(201)
            /\ UNCHANGED companies
    /\ UNCHANGED exceptCompany

\* a query is rejected for another reason, or bcrypt.hash throws: the catch
\* block answers 500
RegisterThrows ==
    /\ registration.pc \in {"checkEmail", "checkUsername", "insertCompany",
                            "hash", "insertAdmin"}
    /\ registration' = RegistrationAnswer(500)
    /\ UNCHANGED <<companies, admins, exceptCompany>>

CompanyNext ==
    \/ \E complete \in BOOLEAN, email \in RegisterEmails,
          username \in RegisterUsernames :
              Register(complete, email, username)
    \/ RegisterCheckEmail
    \/ RegisterCheckUsername
    \/ RegisterInsertCompany
    \/ RegisterHash
    \/ RegisterInsertAdmin
    \/ RegisterThrows

----------------------------------------------------------------------------
(* The page script: modals and theme toggle of PortfolioApp (script.js)    *)
(*                                                                         *)
(* One modal element and the theme toggle element of one page.  A pending  *)
(* timer is its callback's kind; timers holds them in the order they were  *)
(* set.  The browser runs a timer when its delay has passed, so a timer    *)
(* cannot run before one set earlier with the same or a shorter delay.     *)

\* pending timers at a time
MaxTimers == 3
\* clicks on the theme toggle in one behaviour
MaxClicks == 3

Themes == {"light", "dark"}
\* localStorage.getItem('theme') of a first visit
NoItem == "(null)"

Delay(timer) == IF timer = "activate" THEN 10 ELSE 300

\* document.documentElement.getAttribute('data-theme') || 'dark', toggled
NewTheme(current) ==
    IF (IF current = NoItem THEN "dark" ELSE current) = "light"
    THEN "dark"
    ELSE "light"

\* toggleTheme() run once for each listener of the list, on the pair of
\* data-theme and the stored theme
RECURSIVE DispatchClick(_, _)
DispatchClick(handlers, theme) ==
    IF handlers = <<>>
    THEN theme
    ELSE DispatchClick(Tail(handlers),
                       [dataTheme |-> NewTheme(theme.dataTheme),
                        stored |-> NewTheme(theme.dataTheme)])

\* const savedTheme = localStorage.getItem('theme') || 'dark'
SavedTheme == IF stored = NoItem THEN "dark" ELSE stored

\* DOMContentLoaded: new PortfolioApp().  initializeHeader calls
\* setupThemeToggle, the constructor then calls initializeThemeToggle, and
\* initializeModals hides the modal
Construct ==
    /\ app = "loading"
    /\ app' = "constructed"
    /\ dataTheme' = SavedTheme
    /\ listeners' = listeners \o <<"setupThemeToggle">>
                              \o <<"initializeThemeToggle">>
    /\ modal' = [modal EXCEPT !.display = "none"]
    /\ UNCHANGED <<stored, clicks, bodyOverflow, timers, lastCall,
                   exceptPage>>

\* a click on the theme toggle: every registered listener runs
Click ==
    /\ app = "constructed"
    /\ clicks < MaxClicks
    /\ clicks' = clicks + 1
    /\ LET after == DispatchClick(listeners,
                                  [dataTheme |-> dataTheme,
                                   stored |-> stored])
       IN  /\ dataTheme' = after.dataTheme
           /\ stored' = after.stored
    /\ UNCHANGED <<app, listeners, modal, bodyOverflow, timers, lastCall,
                   exceptPage>>

\* openModal(modalId)
openModal ==
    /\ app = "constructed"
    /\ Len(timers) < MaxTimers
    /\ modal' = [modal EXCEPT !.display = "flex"]
    /\ timers' = Append(timers, "activate")
    /\ bodyOverflow' = "hidden"
    /\ lastCall' = "openModal"
    /\ UNCHANGED <<app, dataTheme, stored, listeners, clicks, exceptPage>>

\* closeModal(modalId)
closeModal ==
    /\ app = "constructed"
    /\ Len(timers) < MaxTimers
    /\ modal' = [modal EXCEPT !.active = FALSE]
    /\ timers' = Append(timers, "hide")
    /\ bodyOverflow' = ""
    /\ lastCall' = "closeModal"
    /\ UNCHANGED <<app, dataTheme, stored, listeners, clicks, exceptPage>>

\* closeAllModals(): closeModal for the modal unless its display is 'none'
closeAllModals ==
    /\ app = "constructed"
    /\ Len(timers) < MaxTimers
    /\ IF modal.display # "none"
       THEN /\ modal' = [modal EXCEPT !.active = FALSE]
            /\ timers' = Append(timers, "hide")
            /\ bodyOverflow' = ""
            /\ lastCall' = "closeModal"
       ELSE UNCHANGED <<modal, timers, bodyOverflow, lastCall>>
    /\ UNCHANGED <<app, dataTheme, stored, listeners, clicks, exceptPage>>

TimerCanFire(i) ==
    \A j \in 1..(i - 1) : Delay(timers[j]) > Delay(timers[i])

\* the callback of a pending timer runs
TimerFires(i) ==
    /\ i \in 1..Len(timers)
    /\ TimerCanFire(i)
    /\ modal' = IF timers[i] = "activate"
                THEN [modal EXCEPT !.active = TRUE]
                ELSE [modal EXCEPT !.display = "none"]
    /\ timers' = SubSeq(timers, 1, i - 1)
                     \o SubSeq(timers, i + 1, Len(timers))
    /\ UNCHANGED <<app, dataTheme, stored, listeners, clicks, bodyOverflow,
                   lastCall, exceptPage>>

PageNext ==
    \/ Construct
    \/ Click
    \/ openModal
    \/ closeAllModals
    \/ closeModal
    \/ \E i \in 1..MaxTimers : TimerFires(i)

----------------------------------------------------------------------------
(* Specifications *)

\* the payroll routes serving requests
Init == PayInit
Next == PayNext
Spec == Init /\ [][Next]_vars

\* the calculators applied to bounded inputs
InitCalc ==
    /\ CalcInit
    /\ employees = <<>>
    /\ PayIdle
    /\ WebIdle

NextCalc == CalcNext \/ CallPayrollLoop
SpecCalc == InitCalc /\ [][NextCalc]_vars

\* requests passing through the route stack
InitRoutes ==
    /\ WebIdle
    /\ input = <<0, 0>>
    /\ calc = NoCall
    /\ prev = NoCall
    /\ employees = <<>>
    /\ PayIdle

NextRoutes == RouteNext
SpecRoutes == InitRoutes /\ [][NextRoutes]_vars

\* the employee portal's handlers and createTables, one at a time
InitPortal ==
    /\ WebIdle
    /\ input = <<0, 0>>
    /\ calc = NoCall
    /\ prev = NoCall
    /\ employees = <<>>
    /\ PayIdle

NextPortal == PortalNext
SpecPortal == InitPortal /\ [][NextPortal]_vars

\* company registrations, one at a time
InitCompany ==
    /\ WebIdle
    /\ input = <<0, 0>>
    /\ calc = NoCall
    /\ prev = NoCall
    /\ employees = <<>>
    /\ PayIdle

NextCompany == CompanyNext
SpecCompany == InitCompany /\ [][NextCompany]_vars

\* the page script in a browser, with any theme stored by an earlier visit
InitPage ==
    /\ http = [pc |-> "idle"]
    /\ session = [employeeId |-> 0]
    /\ clients = <<>>
    /\ portal = [pc |-> "idle"]
    /\ companies = <<>>
    /\ admins = {DefaultAdmin}
    /\ registration = [pc |-> "idle"]
    /\ PageLoading
    /\ stored \in Themes \cup {NoItem}
    /\ input = <<0, 0>>
    /\ calc = NoCall
    /\ prev = NoCall
    /\ employees = <<>>
    /\ PayIdle

NextPage == PageNext
SpecPage == InitPage /\ [][NextPage]_vars

\* the calculators called one after the other with changing arguments
InitRuns ==
    /\ input = <<0, 0>>
    /\ calc = NoCall
    /\ prev = NoCall
    /\ employees = <<>>
    /\ PayIdle
    /\ WebIdle

NextRuns ==
    \/ RunCalculatePAYE
    \/ RunCalculateNigerianPAYE
    \/ RunCalculateNigerianTaxes
    \/ RunPayrollLoop

SpecRuns == InitRuns /\ [][NextRuns]_vars

----------------------------------------------------------------------------
(* The canonical schedule and the intended deductions, as the specification *)
(* states them; the properties below compare the code with these.          *)

CanonicalBrackets ==
    << [lower |-> 0,       upper |-> Num(300000),  rate |-> 7],
       [lower |-> 300000,  upper |-> Num(600000),  rate |-> 11],
       [lower |-> 600000,  upper |-> Num(1100000), rate |-> 15],
       [lower |-> 1100000, upper |-> Num(1600000), rate |-> 19],
       [lower |-> 1600000, upper |-> Num(3200000), rate |-> 21],
       [lower |-> 3200000, upper |-> Infinity,     rate |-> 24] >>

\* rate_i * max(0, min(x, upper_i) - lower_i)
CanonicalTerm(x, i) ==
    MulRate(MathMax(Num(0),
                    Sub(MathMin(x, CanonicalBrackets[i].upper),
                        Num(CanonicalBrackets[i].lower))),
            CanonicalBrackets[i].rate, 100)

RECURSIVE CanonicalSum(_, _)
CanonicalSum(x, i) ==
    IF i = 0 THEN Num(0) ELSE Add(CanonicalSum(x, i - 1), CanonicalTerm(x, i))

CanonicalTax(x) == CanonicalSum(x, Len(CanonicalBrackets))

\* a rounded to 2 decimals, a half rounds up
RoundHalfUp2(a) ==
    IF ~IsFinite(a) THEN a
    ELSE LET unit == Den \div 100
             k == (a.f \div unit) + (IF 2 * (a.f % unit) >= unit THEN 1 ELSE 0)
         IN [n |-> a.n + (k \div 100), f |-> (k % 100) * unit]

Rows == {payroll[i] : i \in 1..Len(payroll)}

\* the stored rows computed from a valid employee record (finite, >= 0)
ValidRows == {row \in Rows : IsFinite(row.gross_pay) /\ Le(Num(0), row.gross_pay)}

----------------------------------------------------------------------------
(* Properties *)

\* C1: for every annual income x >= 0 the tax calculatePAYE has accumulated
\* before dividing by 12 is the sum over the six canonical brackets of
\* rate * max(0, min(x, upper) - lower); above 3,200,000 the rate is 24%
\* without a ceiling.
C1_BracketWalkIsBracketSum ==
    (calc.fn = "calculatePAYE" /\ Le(Num(0), calc.income))
        => calc.tax = CanonicalTax(calc.income)

\* an income above the last finite bound has been taxed: 4,200,000 -> 800,000
C1_Witness ==
    /\ calc.fn = "calculatePAYE"
    /\ calc.income = Num(4200000)
    /\ calc.tax = Num(800000)

C4_NetPlusDeductionsIsGross ==
    (calc.fn = "calculateNigerianTaxes" /\ input[1] >= 0 /\ input[2] >= 0)
        => Add(calc.ret.netSalary, calc.ret.totalDeductions) = calc.ret.grossSalary

C7_NegativeInputRejected ==
    (/\ calc.fn # "none"
     /\ \/ input[1] < 0
        \/ (calc.fn = "calculateNigerianTaxes" /\ input[2] < 0))
        => (calc.outcome = "InvalidInputError" /\ "ret" \notin DOMAIN calc)

C9_RoundedToKobo ==
    /\ (calc.fn = "calculatePAYE" /\ Le(Num(0), calc.income))
           => calc.ret = RoundHalfUp2(Div12(CanonicalTax(calc.income)))
    /\ (calc.fn = "calculateNigerianTaxes" /\ input[1] >= 0 /\ input[2] >= 0)
           => /\ calc.ret.pension = RoundHalfUp2(MulRate(calc.ret.grossSalary, 8, 100))
              /\ calc.ret.nsitf = RoundHalfUp2(MulRate(calc.ret.grossSalary, 1, 100))
              /\ calc.ret.itf = RoundHalfUp2(MulRate(calc.ret.grossSalary, 1, 100))

\* C10: in every PAYE implementation an annual taxable income at a bracket
\* edge is taxed entirely within the brackets below it (21000 at 300000), and
\* one naira above the edge adds the next marginal rate (21000.11 at 300001).
C10_EdgeTaxInEveryImplementation ==
    (/\ calc.fn # "none"
     /\ \E e \in Edges : calc.income \in {Num(e), Num(e + 1)})
        => calc.tax = CanonicalTax(calc.income)

\* two runs of the same computation, the allowances equal and not negative,
\* the salary of the earlier one not negative and at most that of the later
SalaryRaised(fn) ==
    /\ prev.fn = fn
    /\ calc.fn = fn
    /\ prev.args[2] = calc.args[2]
    /\ calc.args[2] >= 0
    /\ 0 <= prev.args[1]
    /\ prev.args[1] <= calc.args[1]

\* C11: with the allowances fixed and the salary raised from a to b (both
\* >= 0), none of the returned payeTax, pension, nsitf, itf and nhf decreases;
\* likewise the monthly PAYE of calculatePAYE for a larger income.
C11_Monotone ==
    /\ SalaryRaised("calculateNigerianTaxes")
           => /\ Le(prev.ret.paye, calc.ret.paye)
              /\ Le(prev.ret.pension, calc.ret.pension)
              /\ Le(prev.ret.nhf, calc.ret.nhf)
              /\ Le(prev.ret.nsitf, calc.ret.nsitf)
              /\ Le(prev.ret.itf, calc.ret.itf)
    /\ SalaryRaised("payrollLoop")
           => /\ Le(prev.ret.paye, calc.ret.paye)
              /\ Le(prev.ret.nhf, calc.ret.nhf)
              /\ Le(prev.ret.nsitf, calc.ret.nsitf)
              /\ Le(prev.ret.itf, calc.ret.itf)
    /\ (/\ prev.fn = "calculatePAYE"
        /\ calc.fn = "calculatePAYE"
        /\ 0 <= prev.args[1]
        /\ prev.args[1] <= calc.args[1])
           => Le(prev.ret, calc.ret)

\* the salary was raised from 4,200,000 to 5,000,000: the PAYE grew, the
\* housing fund contribution stayed at its cap
C11_Witness ==
    /\ SalaryRaised("calculateNigerianTaxes")
    /\ prev.args = <<4200000, 0>>
    /\ calc.args = <<5000000, 0>>
    /\ Gt(calc.ret.paye, prev.ret.paye)
    /\ prev.ret.nhf = Num(100000)
    /\ calc.ret.nhf = Num(100000)

\* the call in calc is a deductions breakdown of salary and allowances that
\* are both not negative
ValidBreakdown(fn) ==
    /\ calc.fn = fn
    /\ calc.args[1] >= 0
    /\ calc.args[2] >= 0

C13_ZeroInZeroOut ==
    /\ (calc.fn = "calculateNigerianTaxes" /\ calc.args = <<0, 0>>)
           => /\ calc.ret.grossSalary = Num(0)
              /\ calc.ret.paye = Num(0)
              /\ calc.ret.pension = Num(0)
              /\ calc.ret.nhf = Num(0)
              /\ calc.ret.nsitf = Num(0)
              /\ calc.ret.itf = Num(0)
              /\ calc.ret.totalDeductions = Num(0)
              /\ calc.ret.netSalary = Num(0)
    /\ (calc.fn = "payrollLoop" /\ calc.args = <<0, 0>>)
           => /\ calc.ret.grossPay = Num(0)
              /\ calc.ret.paye = Num(0)
              /\ calc.ret.nhf = Num(0)
              /\ calc.ret.nsitf = Num(0)
              /\ calc.ret.itf = Num(0)
              /\ calc.ret.totalDeductions = Num(0)
              /\ calc.ret.netPay = Num(0)
    /\ (calc.fn = "calculatePAYE" /\ calc.args[1] = 0)
           => calc.ret = Num(0)

\* calculateNigerianTaxes(0, 0) has returned; the relief it reports beside
\* the amounts is the 200,000 the relief formula starts from
C13_Witness ==
    /\ calc.fn = "calculateNigerianTaxes"
    /\ calc.args = <<0, 0>>
    /\ calc.outcome = "returned"
    /\ calc.ret.consolidatedAllowance = Num(200000)
    /\ calc.ret.taxableIncome = Num(0)

Computed == {r \in Requests : /\ reqs[r].op = "process"
                               /\ reqs[r].payrollEntries # <<>>}

RECURSIVE SumOfBreakdowns(_, _, _)
SumOfBreakdowns(emps, i, field) ==
    IF i > Len(emps) THEN Num(0)
    ELSE Add(EmployeeTaxes(emps[i])[field], SumOfBreakdowns(emps, i + 1, field))

\* the sum of one column over the stored rows from row i on
RECURSIVE SumOfRows(_, _)
SumOfRows(i, column) ==
    IF i > Len(payroll) THEN Num(0)
    ELSE Add(payroll[i][column], SumOfRows(i + 1, column))

\* an answered preview carries the count of the employees and the sums of
\* their breakdowns
PreviewTotalsAreSums ==
    \A r \in Requests :
        (reqs[r].op = "preview" /\ res[r].status = 200)
            => LET b == res[r].body
                   gross == SumOfBreakdowns(employees, 1, "grossPay")
                   ded == SumOfBreakdowns(employees, 1, "totalDeductions")
               IN /\ b.employeeCount = Len(employees)
                  /\ b.grossPay = Json(gross)
                  /\ b.taxes.paye = Json(SumOfBreakdowns(employees, 1, "paye"))
                  /\ b.taxes.nhf = Json(SumOfBreakdowns(employees, 1, "nhf"))
                  /\ b.taxes.nsitf = Json(SumOfBreakdowns(employees, 1, "nsitf"))
                  /\ b.taxes.itf = Json(SumOfBreakdowns(employees, 1, "itf"))
                  /\ b.totalDeductions = Json(ded)
                  /\ b.netPay = Json(Sub(gross, ded))

\* a tax report answered when rows of valid employee records are stored
\* carries totals, and its PAYE total is the sum of paye_tax over the rows
TaxReportTotalsAreSums ==
    \A r \in Requests :
        (/\ reqs[r].op = "taxReport"
         /\ reqs[r].pc = "done"
         /\ Rows # {}
         /\ Rows = ValidRows)
            => /\ res[r].status = 200
               /\ res[r].body.totals.payeTax = SumOfRows(1, "paye_tax")

Processed == {r \in Requests : reqs[r].op = "process" /\ res[r].status = 200}

C18_ImplementationsDiverge ==
    (/\ calc.fn = "calculateNigerianPAYE"
     /\ Gt(calc.income, Num(0)))
        => calc.tax # AnnualTax(calc.income)

\* calculateNigerianPAYE(25000, 0): a taxable income of 300,000 a year, on
\* which the cascade has no tax and the bracket walk has 21,000
C18_Witness ==
    /\ calc.fn = "calculateNigerianPAYE"
    /\ calc.args = <<25000, 0>>
    /\ calc.income = Num(300000)
    /\ calc.tax = Num(0)
    /\ AnnualTax(calc.income) = Num(21000)

\* C19: in calculateNigerianTaxes, for salary and allowances that are not
\* negative, the allowance is min(1% of the income + 200,000, 2,400,000), the
\* taxable income is the income less the allowance, floored at 0, it lies
\* between 0 and the income, and the reported paye is the rounded tax of the
\* canonical brackets on the taxable income, so it depends on the inputs
\* through the taxable income only.
C19_BracketsOnTaxableIncome ==
    ValidBreakdown("calculateNigerianTaxes")
        => LET gross == Add(Num(calc.args[1]), Num(calc.args[2]))
               relief == MathMin(Add(MulRate(gross, 1, 100), Num(200000)),
                                 Num(2400000))
               ti == calc.ret.taxableIncome
           IN /\ calc.ret.grossSalary = gross
              /\ calc.ret.consolidatedAllowance = relief
              /\ ti = (IF Gt(Sub(gross, relief), Num(0))
                       THEN Sub(gross, relief) ELSE Num(0))
              /\ Le(Num(0), ti)
              /\ Le(ti, gross)
              /\ calc.income = ti
              /\ calc.ret.paye = MathRound(CanonicalTax(ti))

\* calculateNigerianTaxes(250,000,000, 0): the allowance is held at its
\* ceiling of 2,400,000, which leaves 247,600,000 taxable; the call before it
\* was calculateNigerianTaxes(4, 0), whose taxable income is floored at 0
C19_Witness ==
    /\ ValidBreakdown("calculateNigerianTaxes")
    /\ calc.args = <<250000000, 0>>
    /\ calc.ret.consolidatedAllowance = Num(2400000)
    /\ calc.ret.taxableIncome = Num(247600000)
    /\ Gt(calc.ret.paye, Num(0))
    /\ prev.fn = "calculateNigerianTaxes"
    /\ prev.args = <<4, 0>>
    /\ prev.ret.taxableIncome = Num(0)

\* the tax a table of bands gives on income x: the sum over the bands of the
\* rate on the part of x within the band
RECURSIVE BandSum(_, _, _)
BandSum(bands, x, i) ==
    IF i = 0 THEN Num(0)
    ELSE Add(BandSum(bands, x, i - 1),
             MulRate(MathMax(Num(0), Sub(MathMin(x, bands[i].max), bands[i].min)),
                     bands[i].rate, 100))

\* the bands of every computation are the ones its tax is made of
BandsMakeTheTax ==
    (calc.fn # "none" /\ IsFinite(calc.income) /\ Le(Num(0), calc.income))
        => calc.tax = BandSum(BandsOf(calc.fn), calc.income, Len(BandsOf(calc.fn)))

\* C20: the brackets of every PAYE implementation start at 0, each begins
\* where the one before it ends, the last has no upper bound, and their
\* bounds and rates are 7%, 11%, 15%, 19%, 21%, 24% over 0 / 300,000 /
\* 600,000 / 1,100,000 / 1,600,000 / 3,200,000.
C20_CanonicalBracketsEverywhere ==
    (/\ calc.fn # "none"
     /\ \A i \in 1..Len(calc.args) : calc.args[i] >= 0
     /\ Gt(calc.income, Num(0)))
        => LET bands == BandsOf(calc.fn)
           IN /\ Len(bands) = Len(CanonicalBrackets)
              /\ bands[1].min = Num(0)
              /\ \A i \in 1..(Len(bands) - 1) : bands[i + 1].min = bands[i].max
              /\ bands[Len(bands)].max = Infinity
              /\ \A i \in 1..Len(bands) :
                    /\ bands[i].min = Num(CanonicalBrackets[i].lower)
                    /\ bands[i].max = CanonicalBrackets[i].upper
                    /\ bands[i].rate = CanonicalBrackets[i].rate

FallbackIndex == CHOOSE i \in 1..Len(Routes) : Routes[i].chain = <<"fallback">>

\* the indices of the routes registered for a method and path
Registrations(method, path) ==
    {i \in 1..Len(Routes) : Routes[i].method = method /\ Routes[i].path = path}

\* the lines of the registrations whose handlers have run for the request
InvokedLines == {http.log[k].line : k \in 1..Len(http.log)}

LineIndex(line) == CHOOSE i \in 1..Len(Routes) : Routes[i].line = line

\* the lines at which a method and path are registered; the registration at
\* the least line is the first one
RegistrationLines(method, path) ==
    {Routes[i].line : i \in Registrations(method, path)}

FirstLine(lines) == CHOOSE line \in lines : \A other \in lines : line <= other

\* the lines of registrations that repeat an earlier one
RepeatedLines ==
    UNION {RegistrationLines(m, p) \ {FirstLine(RegistrationLines(m, p))} :
               <<m, p>> \in {mp \in Methods \X Paths :
                                RegistrationLines(mp[1], mp[2]) # {}}}

\* C21: a request for a method and path that is registered twice is answered
\* by a handler of the first registration, and no handler of a second
\* registration is run for any request.
C21_FirstRegistrationAnswers ==
    http.pc \in {"routing", "done"} =>
        LET lines == RegistrationLines(http.method, http.path)
        IN /\ InvokedLines \cap RepeatedLines = {}
           /\ (Cardinality(lines) > 1 /\ http.pc = "done")
                  => /\ http.status # 0
                     /\ http.by = FirstLine(lines)

\* POST /api/hr/candidates with a complete body and a valid token has gone
\* through authenticateAdmin, the validation and the upload middleware of
\* the first registration, whose handler answered
C21_Witness ==
    /\ http.pc = "done"
    /\ http.method = "POST"
    /\ http.path = "/api/hr/candidates"
    /\ Len(http.log) = 4
    /\ http.by = 195
    /\ http.status = 200

\* C24: a GET request whose path matches no route registered before the
\* fallback is answered by the fallback or, if that fails, by the error
\* handler; no GET route registered after the fallback is run for any
\* request.
C24_FallbackShadowsLaterGets ==
    http.pc \in {"routing", "done"} =>
        /\ \A line \in InvokedLines :
              ~(/\ LineIndex(line) > FallbackIndex
                /\ Routes[LineIndex(line)].method = "GET")
        /\ (/\ http.pc = "done"
            /\ http.method = "GET"
            /\ \A i \in Registrations("GET", http.path) : i > FallbackIndex)
               => /\ http.by \in {620, 629}
                  /\ http.by = 629 => (http.status = 500 /\ 620 \in InvokedLines)

\* GET /api/payroll/preview was answered with index.html by the fallback
C24_Witness ==
    /\ http.pc = "done"
    /\ http.method = "GET"
    /\ http.path = "/api/payroll/preview"
    /\ http.by = 620
    /\ http.status = 200
    /\ InvokedLines = {620}

\* the log entries of the validation middleware
ValidationEntries ==
    {k \in 1..Len(http.log) : http.log[k].kind \in {"validateJob", "validateCandidate"}}

ValidatorErrors(kind) ==
    IF kind = "validateJob" THEN validateJob(http.body)
    ELSE validateCandidate(http.body)

\* C28: the validation middleware either finds errors, responds 400 with
\* success = false and the list of errors and does not call next, so that no
\* handler runs after it; or it calls next once and sends no response.
C28_ValidationRespondsOrPasses ==
    http.pc \in {"routing", "done"} =>
        \A k \in ValidationEntries :
            LET entry == http.log[k]
                errors == ValidatorErrors(entry.kind)
            IN IF errors # <<>>
               THEN /\ entry.status = 400
                    /\ entry.body.success = FALSE
                    /\ entry.body.details = errors
                    /\ ~entry.next
                    /\ k = Len(http.log)
                    /\ http.pc = "done"
                    /\ http.status = 400
               ELSE /\ entry.next
                    /\ entry.status = 0
                    /\ Cardinality(ValidationEntries) = 1

\* POST /api/hr/jobs with a blank title and an empty location was answered
\* 400 with the two errors, and the handler with the INSERT did not run
C28_Witness ==
    /\ http.pc = "done"
    /\ http.path = "/api/hr/jobs"
    /\ http.status = 400
    /\ Len(http.log) = 2
    /\ http.log[2].kind = "validateJob"
    /\ http.log[2].body.details = <<"title is required", "location is required">>

\* C25.  Employee session: only the last step of a login whose username was
\* found and whose password comparison succeeded sets session.employeeId,
\* and a login that answers anything but 200 leaves the session as it was;
\* a session-guarded handler invoked without employeeId answers 401 without
\* touching the database; a logout that succeeds clears employeeId, so the
\* guarded handlers answer 401 until a login succeeds again.
C25_SessionProtocol ==
    [][ /\ (session'.employeeId # session.employeeId
             /\ session'.employeeId # 0) =>
                /\ portal.op = "login"
                /\ portal.username = "known"
                /\ portal.step = 3
                /\ portal'.status = 200
        /\ (portal' # portal /\ portal'.pc = "done"
             /\ portal'.op = "login" /\ portal'.status # 200) =>
                session' = session
        /\ (portal' # portal /\ portal'.pc = "done"
             /\ portal'.op \in EmployeeOps
             /\ session.employeeId = 0) =>
                /\ portal'.status = 401
                /\ portal'.db = 0
        /\ (portal' # portal /\ portal'.pc = "done"
             /\ portal'.op = "logout" /\ portal'.status = 200) =>
                session'.employeeId = 0
      ]_vars

\* after a login of a known username ended in the catch block, a leave
\* request was answered 401 with no database access
C25_Witness ==
    /\ portal.pc = "done"
    /\ portal.op = "leave-request"
    /\ portal.status = 401
    /\ portal.db = 0
    /\ session.employeeId = 0
    /\ \E i \in 1..Len(clients) :
           clients[i].by = "login" /\ clients[i].released = 0

\* C26.  Every client obtained with pool.connect() is released exactly once
\* by the code that obtained it: once that code has answered or returned,
\* release() was called once on each of its clients.
C26_ReleasedExactlyOnce ==
    \A i \in 1..Len(clients) :
        (PortalFree \/ i # portal.client) => clients[i].released = 1

\* C27.  Company registration is all-or-nothing: a registration answered
\* 201 has stored its company row and its company_admin row, and one
\* answered 400 or 500 has stored neither.
C27_AllOrNothing ==
    registration.pc = "done" =>
        LET company == \E i \in 1..Len(companies) :
                          /\ companies[i].id = registration.companyId
                          /\ companies[i].email = registration.email
            admin == \E a \in admins :
                        /\ a.role = "company_admin"
                        /\ a.company_id = registration.companyId
                        /\ a.username = registration.username
        IN  IF registration.status = 201
            THEN company /\ admin
            ELSE /\ registration.status \in {400, 500}
                 /\ ~company
                 /\ ~admin

\* C29.  Once every pending timer has fired, the modal is as its last call
\* left it: after openModal displayed ('flex') with class 'active' and body
\* scrolling locked; after closeModal hidden ('none') without 'active' and
\* body scrolling restored.
C29_ModalMatchesLastCall ==
    timers = <<>> =>
        /\ lastCall = "openModal" =>
               /\ modal.display = "flex"
               /\ modal.active
               /\ bodyOverflow = "hidden"
        /\ lastCall = "closeModal" =>
               /\ modal.display = "none"
               /\ ~modal.active
               /\ bodyOverflow = ""

\* C30.  Every click on the theme toggle of a constructed PortfolioApp
\* changes data-theme to the other of 'light' and 'dark' and stores the new
\* theme, so that after the click the stored theme is the displayed one.
C30_ClickSwitchesTheme ==
    [][clicks' = clicks + 1 =>
           /\ dataTheme' \in Themes
           /\ dataTheme' # dataTheme
           /\ stored' = dataTheme']_vars

====
